---- MODULE Spec2Model ----
(***************************************************************************)
(* State-machine model of the in-memory keystore of                        *)
(* src/src/identity/keystore.rs: a ChaCha20 PRNG and a hash map of private *)
(* keys behind one asynchronous mutex, with the operations new,            *)
(* insert_sr25519_memory, generate_ed25519, generate_sr25519, keys, sign   *)
(* and sign_sr25519_vrf.                                                   *)
(*                                                                         *)
(* Cryptography is modelled symbolically: a PRNG output is the term        *)
(* (seed, position), a public key is a term over the secret it is derived  *)
(* from, a signature is a term over key, message and signing randomness.   *)
(* Distinct terms are distinct values (no collisions of the PRNG stream,   *)
(* of key derivation, or between PRNG outputs and caller-supplied bytes).  *)
(***************************************************************************)
EXTENDS Integers, Sequences, FiniteSets, TLC

(***************************************************************************)
(* Bounds of the model.                                                    *)
(***************************************************************************)
NumTasks == 2        \* concurrent callers sharing keystores
NumSeeds == 2        \* distinct 32-byte seeds
MaxGen == 2          \* generation calls made per keystore
MaxInsert == 1       \* insert_sr25519_memory calls made per keystore
MaxSetupInsert == 2  \* the same, where insertions are the only mutations
NumPayloads == 1     \* distinct payloads handed to sign

Tasks == 1 .. NumTasks
Seeds == 1 .. NumSeeds
Payloads == 1 .. NumPayloads
NoTask == 0

(***************************************************************************)
(* KeyNamespace (keystore.rs:31-38) and the namespaces callers pass.       *)
(***************************************************************************)
KeyNamespace == {"Aura", "AuthorityDiscovery", "Babe", "Grandpa", "ImOnline"}

CallNamespaces == {"Aura", "Babe"}

InsertNamespaces == {<<"Aura", "Babe">>, <<"Babe", "Babe">>}

(***************************************************************************)
(* Byte strings as symbolic terms.  src "rng": output number b of the      *)
(* ChaCha20 stream of seed a.  src "raw": caller-supplied bytes number a.  *)
(***************************************************************************)
NoBytes == [src |-> "none", a |-> 0, b |-> 0]

RngBytes(seed, pos) == [src |-> "rng", a |-> seed, b |-> pos]

RawBytes(n) == [src |-> "raw", a |-> n, b |-> 0]

(***************************************************************************)
(* rand_chacha::ChaCha20Rng: from_seed starts the stream of the seed at    *)
(* position 0; every sample returns the output at the current position     *)
(* and moves the position forward.                                         *)
(***************************************************************************)
FromSeed(seed) == [seed |-> seed, pos |-> 0]

RngOutput(rng, i) == RngBytes(rng.seed, rng.pos + i)

AdvanceStuck(rng, n) == rng

Advance(rng, n) == [rng EXCEPT !.pos = @ + n]

\* Number of values sampled by new (the SipHasher key), by
\* ed25519_zebra::SigningKey::new (the signing key seed) and by
\* schnorrkel::Keypair::generate_with (the secret scalar, then the nonce).
HasherDraws == 1
Ed25519Draws == 1
Sr25519Draws == 2

(***************************************************************************)
(* PrivateKey (keystore.rs:261-265) and public key derivation.             *)
(* An Sr25519 public key is derived from the secret scalar alone; the      *)
(* nonce half of the 64 secret bytes does not enter it.                    *)
(***************************************************************************)
NoPrivateKey == [variant |-> "None", key |-> NoBytes, nonce |-> NoBytes]

MemoryEd25519(key) == [variant |-> "MemoryEd25519", key |-> key, nonce |-> NoBytes]

MemorySr25519(key, nonce) == [variant |-> "MemorySr25519", key |-> key, nonce |-> nonce]

NoPublicKey == [alg |-> "None", point |-> NoBytes]

PublicKeyOf(priv) ==
    [alg |-> IF priv.variant = "MemoryEd25519" THEN "Ed25519" ELSE "Sr25519",
     point |-> priv.key]

\* ed25519_zebra::SigningKey::new(&mut rng)
Ed25519New(rng) == MemoryEd25519(RngOutput(rng, 0))

\* schnorrkel::Keypair::generate_with(&mut rng)
Sr25519GenerateWith(rng) == MemorySr25519(RngOutput(rng, 0), RngOutput(rng, 1))

(***************************************************************************)
(* The 64 raw bytes handed to insert_sr25519_memory: 32 bytes of scalar    *)
(* and 32 bytes of nonce.  schnorrkel::SecretKey::from_bytes rejects a     *)
(* scalar that is not canonical.                                           *)
(***************************************************************************)
BadScalar == 0

RawPrivateKeys == {[key |-> 1, nonce |-> 1], [key |-> BadScalar, nonce |-> 1]}

FromBytesUnchecked(raw) == TRUE

FromBytesOk(raw) == raw.key # BadScalar

ToKeypair(raw) == MemorySr25519(RawBytes(raw.key), RawBytes(raw.nonce))

(***************************************************************************)
(* hashbrown::HashMap<(KeyNamespace, [u8; 32]), PrivateKey>: a function    *)
(* whose domain is the set of (namespace, public key) pairs present.       *)
(***************************************************************************)
EmptyMap == [e \in {} |-> NoPrivateKey]

MapInsertReplacing(m, k, v) == [e \in {k} |-> v]

\* A list pushed to: every insertion adds a slot of its own.
MapInsertVersioned(m, k, v) ==
    [e \in (DOMAIN m) \cup {<<k[1], k[2], Cardinality(DOMAIN m)>>} |->
        IF e \in DOMAIN m THEN m[e] ELSE v]

MapInsert(m, k, v) == [e \in (DOMAIN m) \cup {k} |-> IF e = k THEN v ELSE m[e]]

MapGetAnyNamespace(m, ns, pk) ==
    IF \E e \in DOMAIN m : e[2] = pk
    THEN m[CHOOSE e \in DOMAIN m : e[2] = pk]
    ELSE NoPrivateKey

MapGetByNamespace(m, ns, pk) ==
    IF \E e \in DOMAIN m : e[1] = ns
    THEN m[CHOOSE e \in DOMAIN m : e[1] = ns]
    ELSE NoPrivateKey

\* keys.get(&(key_namespace, *public_key)); NoPrivateKey stands for None
MapGet(m, ns, pk) == IF <<ns, pk>> \in DOMAIN m THEN m[<<ns, pk>>] ELSE NoPrivateKey

(***************************************************************************)
(* Signatures.  Ed25519 signing is a function of key and payload.          *)
(* schnorrkel signing (sign and vrf_sign) also draws witness randomness    *)
(* from the thread's own generator, never from the keystore's PRNG.        *)
(***************************************************************************)
SigningRand == {1, 2}

NoSignature ==
    [scheme |-> "None", key |-> NoBytes, context |-> "", payload |-> 0,
     transcript |-> <<>>, rand |-> 0]

\* key.sign(payload)
Ed25519Sign(priv, payload) ==
    [scheme |-> "Ed25519", key |-> priv.key, context |-> "", payload |-> payload,
     transcript |-> <<>>, rand |-> 0]

\* key.sign(schnorrkel::signing_context(b"substrate").bytes(payload))
Sr25519Sign(priv, payload, r) ==
    [scheme |-> "Sr25519", key |-> priv.key, context |-> "substrate",
     payload |-> payload, transcript |-> <<>>, rand |-> r]

\* key.vrf_sign(transcript), of which only the proof is kept
VrfProof(priv, transcript, r) ==
    [scheme |-> "Sr25519Vrf", key |-> priv.key, context |-> "", payload |-> 0,
     transcript |-> transcript, rand |-> r]

(***************************************************************************)
(* merlin::Transcript as the sequence of operations applied to it.         *)
(***************************************************************************)
VrfLabel == "vrf"

BytesItem(label, v) == [label |-> label, kind |-> "bytes", value |-> v]

U64Item(label, v) == [label |-> label, kind |-> "u64", value |-> v]

TranscriptInputs ==
    {<<BytesItem("a", 1), U64Item("b", 2)>>, <<U64Item("b", 2), BytesItem("a", 1)>>}

TranscriptNew(label) == <<[op |-> "new", label |-> label, value |-> 0]>>

AppendItem(transcript, item) ==
    Append(transcript,
           [op |-> IF item.kind = "bytes" THEN "append_message" ELSE "append_u64",
            label |-> item.label, value |-> item.value])

\* The items appended last to first.
RECURSIVE AppendItemsReversed(_, _)
AppendItemsReversed(transcript, items) ==
    IF items = <<>> THEN transcript
    ELSE AppendItem(AppendItemsReversed(transcript, Tail(items)), Head(items))

RECURSIVE AppendItems(_, _)
AppendItems(transcript, items) ==
    IF items = <<>> THEN transcript
    ELSE AppendItems(AppendItem(transcript, Head(items)), Tail(items))

(***************************************************************************)
(* Results handed back to callers.                                         *)
(***************************************************************************)
Result(tag, pk, sig, list) == [tag |-> tag, pk |-> pk, sig |-> sig, list |-> list]

NoResult == Result("None", NoPublicKey, NoSignature, {})

ReturnedKey(pk) == Result("PublicKey", pk, NoSignature, {})

ReturnedKeys(list) == Result("Keys", NoPublicKey, NoSignature, list)

\* Ed25519 signing that draws fresh randomness for every signature.
SignResultsHedged(key, payload) ==
    IF key = NoPrivateKey
    THEN {Result("UnknownPublicKey", NoPublicKey, NoSignature, {})}
    ELSE IF key.variant = "MemoryEd25519"
    THEN {Result("Ok", NoPublicKey, [Ed25519Sign(key, payload) EXCEPT !.rand = r], {})
            : r \in SigningRand}
    ELSE {Result("Ok", NoPublicKey, Sr25519Sign(key, payload, r), {}) : r \in SigningRand}

\* The outcomes of sign (keystore.rs:180-193) for the entry found, if any.
SignResults(key, payload) ==
    IF key = NoPrivateKey
    THEN {Result("UnknownPublicKey", NoPublicKey, NoSignature, {})}
    ELSE IF key.variant = "MemoryEd25519"
    THEN {Result("Ok", NoPublicKey, Ed25519Sign(key, payload), {})}
    ELSE {Result("Ok", NoPublicKey, Sr25519Sign(key, payload, r), {}) : r \in SigningRand}

SignVrfResultsAnyVariant(key, label, items) ==
    IF key = NoPrivateKey
    THEN {Result("Sign(UnknownPublicKey)", NoPublicKey, NoSignature, {})}
    ELSE {Result("OkVrf", NoPublicKey,
                 VrfProof(key, AppendItems(TranscriptNew(label), items), r), {})
            : r \in SigningRand}

\* The outcomes of sign_sr25519_vrf (keystore.rs:208-235).
SignVrfResults(key, label, items) ==
    IF key = NoPrivateKey
    THEN {Result("Sign(UnknownPublicKey)", NoPublicKey, NoSignature, {})}
    ELSE IF key.variant = "MemoryEd25519"
    THEN {Result("WrongKeyAlgorithm", NoPublicKey, NoSignature, {})}
    ELSE {Result("OkVrf", NoPublicKey,
                 VrfProof(key, AppendItems(TranscriptNew(label), items), r), {})
            : r \in SigningRand}

(***************************************************************************)
(* State.  Keystores are numbered; every per-keystore variable is a        *)
(* function over the keystores that were constructed.                      *)
(***************************************************************************)
VARIABLES
    gen_rng,    \* Guarded.gen_rng of each keystore
    keys,       \* Guarded.keys of each keystore
    hasher,     \* the key of the SipHasherBuild of Guarded.keys
    mutex,      \* Keystore.guarded: the task holding the lock, or NoTask
    home,       \* the keystore each task shares
    pc,         \* where each task is in its current call
    call,       \* the operation and arguments of each task's current call
    local,      \* the private key a generation call has synthesized
    ret,        \* what each task's current call is about to return
    obs,        \* history: what had returned when a keys() call started
    tickets,    \* history: generation calls that acquired the lock so far
    signed,     \* history: the Ed25519 signatures sign has produced (SpecSigned)
    log         \* history: the index mutations of each keystore, in order

vars ==
    <<gen_rng, keys, hasher, mutex, home, pc, call, local, ret, obs, tickets, signed, log>>

Stores == DOMAIN mutex

GenOps == {"generate_ed25519", "generate_sr25519"}

Call(op, ns, pk, payload, items) ==
    [op |-> op, ns |-> ns, pk |-> pk, payload |-> payload, label |-> VrfLabel,
     items |-> items, ticket |-> 0]

NoCall == Call("none", "Aura", NoPublicKey, 0, <<>>)

NoObs == [from |-> 0, seen |-> {}]

NoRaw == [key |-> 0, nonce |-> 0]

LogEntry(kind, ticket, nss, raw, entries, pk) ==
    [kind |-> kind, ticket |-> ticket, nss |-> nss, raw |-> raw,
     entries |-> entries, pk |-> pk]

(***************************************************************************)
(* Keystore::new (keystore.rs:78-88): the PRNG is derived from the seed,   *)
(* one sample of it keys the hasher of the empty index, the lock is free.  *)
(***************************************************************************)
NewHasherKey(seed) == RngOutput(FromSeed(seed), 0)

NewRng(seed) == Advance(FromSeed(seed), HasherDraws)

InitStores(S, seedsOf) ==
    /\ \E seeds \in [S -> seedsOf] :
          /\ gen_rng = [k \in S |-> NewRng(seeds[k])]
          /\ hasher = [k \in S |-> NewHasherKey(seeds[k])]
    /\ keys = [k \in S |-> EmptyMap]
    /\ mutex = [k \in S |-> NoTask]
    /\ home \in [Tasks -> S]
    /\ pc = [t \in Tasks |-> "idle"]
    /\ call = [t \in Tasks |-> NoCall]
    /\ local = [t \in Tasks |-> NoPrivateKey]
    /\ ret = [t \in Tasks |-> NoResult]
    /\ obs = [t \in Tasks |-> NoObs]
    /\ tickets = [k \in S |-> 0]
    /\ signed = [k \in S |-> {}]
    /\ log = [k \in S |-> <<>>]

\* One keystore shared by all tasks.
Init == InitStores({1}, {1})

\* Two keystores, each task sharing one of them.
InitTwin == InitStores({1, 2}, Seeds)

(***************************************************************************)
(* History helpers.                                                        *)
(***************************************************************************)
GenEntries(k) == {i \in 1 .. Len(log[k]) : log[k][i].kind = "generate"}

InsertCalls(k) == {i \in 1 .. Len(log[k]) : log[k][i].kind # "generate"}

\* Generation calls made on keystore k: logged, or started and not yet logged.
GenMade(k) ==
    Cardinality(GenEntries(k))
    + Cardinality({t \in Tasks : home[t] = k /\ call[t].op \in GenOps
                                  /\ pc[t] \in {"wait", "locked", "drawn"}})

\* The index after the first i mutations.
IndexAt(k, i) == UNION {log[k][j].entries : j \in 1 .. i}

\* Entries added by operations that have returned.
ReturnedEntries(k) ==
    UNION {log[k][j].entries :
             j \in {i \in 1 .. Len(log[k]) :
                      ~ \E t \in Tasks : /\ home[t] = k /\ pc[t] = "ret"
                                         /\ call[t].op \in GenOps
                                         /\ log[k][i].kind = "generate"
                                         /\ call[t].ticket = log[k][i].ticket}}

(***************************************************************************)
(* The public keys callers hand to sign and sign_sr25519_vrf: every key of *)
(* the index, and a key that no secret of the model derives.               *)
(***************************************************************************)
StrangerKey == [alg |-> "Sr25519", point |-> RawBytes(BadScalar)]

ProbeKeys(k) == {e[2] : e \in DOMAIN keys[k]} \cup {StrangerKey}

CallInputs(k) ==
    {Call(op, ns, NoPublicKey, 0, <<>>) : op \in GenOps, ns \in CallNamespaces}
    \cup {Call("keys", "Aura", NoPublicKey, 0, <<>>)}
    \cup {Call("sign", ns, pk, p, <<>>) :
            ns \in CallNamespaces, pk \in ProbeKeys(k), p \in Payloads}
    \cup {Call("sign_sr25519_vrf", ns, pk, 0, items) :
            ns \in CallNamespaces, pk \in ProbeKeys(k), items \in TranscriptInputs}

Ops == GenOps \cup {"keys", "sign", "sign_sr25519_vrf"}

(***************************************************************************)
(* A task starts a call: the future is created and will wait for the lock. *)
(* No operation reads its arguments before it holds the lock, and they are *)
(* bytes of the caller's choosing, so the model draws them when the lock   *)
(* is acquired.                                                            *)
(***************************************************************************)
StartOf(t, ops) ==
    /\ pc[t] = "idle"
    /\ \E op \in ops :
          /\ op \in GenOps => GenMade(home[t]) < MaxGen
          /\ call' = [call EXCEPT ![t] = Call(op, "Aura", NoPublicKey, 0, <<>>)]
          /\ obs' = [obs EXCEPT ![t] =
                       IF op = "keys"
                       THEN [from |-> Len(log[home[t]]), seen |-> ReturnedEntries(home[t])]
                       ELSE NoObs]
    /\ pc' = [pc EXCEPT ![t] = "wait"]
    /\ UNCHANGED <<gen_rng, keys, hasher, mutex, home, local, ret, tickets, log, signed>>

Start(t) == StartOf(t, Ops)

StartGenerate(t) == StartOf(t, GenOps)

(***************************************************************************)
(* self.guarded.lock().await (keystore.rs:127, 148, 157, 180, 208).        *)
(***************************************************************************)
LockAlwaysFree(k) == TRUE

LockFree(k) == mutex[k] = NoTask

Acquire(t) ==
    /\ pc[t] = "wait"
    /\ LockFree(home[t])
    /\ mutex' = [mutex EXCEPT ![home[t]] = t]
    /\ pc' = [pc EXCEPT ![t] = "locked"]
    /\ tickets' = [tickets EXCEPT ![home[t]] =
                     IF call[t].op \in GenOps THEN @ + 1 ELSE @]
    /\ \E c \in CallInputs(home[t]) :
          /\ c.op = call[t].op
          /\ call' = [call EXCEPT ![t] =
                        [c EXCEPT !.ticket = IF c.op \in GenOps
                                             THEN tickets[home[t]] + 1 ELSE 0]]
    /\ UNCHANGED <<gen_rng, keys, hasher, home, local, ret, obs, log, signed>>

(***************************************************************************)
(* generate_ed25519 / generate_sr25519, first half (keystore.rs:133,163):  *)
(* the private key is synthesized from the PRNG, which moves forward.      *)
(***************************************************************************)
\* Every keystore drawing from one stream shared by the process.
SynthesizeShared(op, rng) ==
    LET drawn == UNION {{<<k, i>> : i \in 1 .. Len(log[k])} : k \in DOMAIN log}
        at == Advance(rng, Cardinality(drawn))
    IN  IF op = "generate_ed25519" THEN Ed25519New(at) ELSE Sr25519GenerateWith(at)

\* Both generation calls building an Sr25519 keypair.
SynthesizeSr25519(op, rng) == Sr25519GenerateWith(rng)

Synthesize(op, rng) ==
    IF op = "generate_ed25519" THEN Ed25519New(rng) ELSE Sr25519GenerateWith(rng)

DrawsShort(op) == Ed25519Draws

Draws(op) == IF op = "generate_ed25519" THEN Ed25519Draws ELSE Sr25519Draws

GenDraw(t) ==
    /\ pc[t] = "locked"
    /\ call[t].op \in GenOps
    /\ local' = [local EXCEPT ![t] = Synthesize(call[t].op, gen_rng[home[t]])]
    /\ gen_rng' = [gen_rng EXCEPT ![home[t]] = Advance(@, Draws(call[t].op))]
    /\ pc' = [pc EXCEPT ![t] = "drawn"]
    /\ UNCHANGED <<keys, hasher, mutex, home, call, ret, obs, tickets, log, signed>>

(***************************************************************************)
(* generate_*, second half (keystore.rs:134-140, 164-169): the public key  *)
(* is derived and the entry inserted under (namespace, public key).        *)
(***************************************************************************)
GenInsert(t) ==
    LET k == home[t]
        pk == PublicKeyOf(local[t])
    IN  /\ pc[t] = "drawn"
        /\ keys' = [keys EXCEPT ![k] = MapInsert(@, <<call[t].ns, pk>>, local[t])]
        /\ log' = [log EXCEPT ![k] =
                     Append(@, LogEntry("generate", call[t].ticket, <<call[t].ns>>,
                                        NoRaw, {<<call[t].ns, pk>>}, pk))]
        /\ ret' = [ret EXCEPT ![t] = ReturnedKey(pk)]
        /\ pc' = [pc EXCEPT ![t] = "ret"]
        /\ UNCHANGED <<gen_rng, hasher, mutex, home, call, local, obs, tickets, signed>>

(***************************************************************************)
(* keys (keystore.rs:149): the keys of the index, cloned and collected.    *)
(***************************************************************************)
SnapshotOneNamespace(m) == {e \in DOMAIN m : e[1] = "Aura"}

Snapshot(m) == DOMAIN m

KeysCollect(t) ==
    /\ pc[t] = "locked"
    /\ call[t].op = "keys"
    /\ ret' = [ret EXCEPT ![t] = ReturnedKeys(Snapshot(keys[home[t]]))]
    /\ pc' = [pc EXCEPT ![t] = "ret"]
    /\ UNCHANGED <<gen_rng, keys, hasher, mutex, home, call, local, obs, tickets, log, signed>>

(***************************************************************************)
(* sign (keystore.rs:181-193): lookup, then dispatch on the variant.       *)
(***************************************************************************)
\* What the history keeps of a call of sign and its result.
Signed(c, r) ==
    IF r.tag = "Ok" /\ r.sig.scheme = "Ed25519"
    THEN {[ns |-> c.ns, pk |-> c.pk, payload |-> c.payload, sig |-> r.sig]}
    ELSE {}

SignStep(t, recording) ==
    /\ pc[t] = "locked"
    /\ call[t].op = "sign"
    /\ \E r \in SignResults(MapGet(keys[home[t]], call[t].ns, call[t].pk),
                            call[t].payload) :
          /\ ret' = [ret EXCEPT ![t] = r]
          /\ signed' = [signed EXCEPT ![home[t]] =
                          IF recording THEN @ \cup Signed(call[t], r) ELSE @]
    /\ pc' = [pc EXCEPT ![t] = "ret"]
    /\ UNCHANGED <<gen_rng, keys, hasher, mutex, home, call, local, obs, tickets, log>>

\* sign taking its signing randomness from the keystore's PRNG.
SignDrawing(t) ==
    /\ pc[t] = "locked"
    /\ call[t].op = "sign"
    /\ \E r \in SignResults(MapGet(keys[home[t]], call[t].ns, call[t].pk),
                            call[t].payload) :
          ret' = [ret EXCEPT ![t] = r]
    /\ gen_rng' = [gen_rng EXCEPT ![home[t]] = Advance(@, 1)]
    /\ pc' = [pc EXCEPT ![t] = "ret"]
    /\ UNCHANGED <<keys, hasher, mutex, home, call, local, obs, tickets, log, signed>>

Sign(t) == SignStep(t, FALSE)

\* The same step, with the history of signatures kept.
SignRecorded(t) == SignStep(t, TRUE)

(***************************************************************************)
(* sign_sr25519_vrf (keystore.rs:209-235).                                 *)
(***************************************************************************)
SignSr25519Vrf(t) ==
    /\ pc[t] = "locked"
    /\ call[t].op = "sign_sr25519_vrf"
    /\ \E r \in SignVrfResults(MapGet(keys[home[t]], call[t].ns, call[t].pk),
                               call[t].label, call[t].items) :
          ret' = [ret EXCEPT ![t] = r]
    /\ pc' = [pc EXCEPT ![t] = "ret"]
    /\ UNCHANGED <<gen_rng, keys, hasher, mutex, home, call, local, obs, tickets, log, signed>>

(***************************************************************************)
(* The call returns: the MutexGuard goes out of scope and the lock is      *)
(* released, on the success path and on the `?` paths alike.  The result   *)
(* is the caller's from here on and the task is free to call again.        *)
(***************************************************************************)
ReleasedOnOk(owner, result) ==
    IF result.tag \in {"UnknownPublicKey", "Sign(UnknownPublicKey)", "WrongKeyAlgorithm"}
    THEN owner ELSE NoTask

Released(owner, result) == NoTask

Return(t) ==
    /\ pc[t] = "ret"
    /\ mutex' = [mutex EXCEPT ![home[t]] = Released(@, ret[t])]
    /\ local' = [local EXCEPT ![t] = NoPrivateKey]
    /\ call' = [call EXCEPT ![t] = NoCall]
    /\ ret' = [ret EXCEPT ![t] = NoResult]
    /\ obs' = [obs EXCEPT ![t] = NoObs]
    /\ pc' = [pc EXCEPT ![t] = "idle"]
    /\ UNCHANGED <<gen_rng, keys, hasher, home, tickets, log, signed>>

(***************************************************************************)
(* insert_sr25519_memory (keystore.rs:103-120).  `&mut self`: no call of   *)
(* any task borrows the keystore.  from_bytes(..).unwrap() panics on bytes *)
(* that are no private key, before anything is inserted.                   *)
(***************************************************************************)
RECURSIVE InsertFirstOnly(_, _, _)
InsertFirstOnly(m, nss, keypair) ==
    IF nss = <<>> THEN m
    ELSE MapInsert(m, <<Head(nss), PublicKeyOf(keypair)>>, keypair)

RECURSIVE InsertAll(_, _, _)
InsertAll(m, nss, keypair) ==
    IF nss = <<>> THEN m
    ELSE InsertAll(MapInsert(m, <<Head(nss), PublicKeyOf(keypair)>>, keypair),
                   Tail(nss), keypair)

InsertSr25519MemoryWithin(k, nss, raw, max) ==
    /\ \A t \in Tasks : home[t] = k => pc[t] = "idle"
    /\ Cardinality(InsertCalls(k)) < max
    /\ IF FromBytesOk(raw)
       THEN LET keypair == ToKeypair(raw)
                pk == PublicKeyOf(keypair)
            IN  /\ keys' = [keys EXCEPT ![k] = InsertAll(@, nss, keypair)]
                /\ log' = [log EXCEPT ![k] =
                             Append(@, LogEntry("insert", 0, nss, raw,
                                                {<<nss[i], pk>> : i \in 1 .. Len(nss)},
                                                pk))]
       ELSE /\ keys' = keys
            /\ log' = [log EXCEPT ![k] =
                         Append(@, LogEntry("panic", 0, nss, raw, {},
                                            NoPublicKey))]
    /\ UNCHANGED <<gen_rng, hasher, mutex, home, pc, call, local, ret, obs, tickets, signed>>

InsertSr25519Memory(k, nss, raw) == InsertSr25519MemoryWithin(k, nss, raw, MaxInsert)

Next ==
    \/ \E t \in Tasks : Start(t)
    \/ \E t \in Tasks : Acquire(t)
    \/ \E t \in Tasks : GenDraw(t)
    \/ \E t \in Tasks : GenInsert(t)
    \/ \E t \in Tasks : KeysCollect(t)
    \/ \E t \in Tasks : Sign(t)
    \/ \E t \in Tasks : SignSr25519Vrf(t)
    \/ \E t \in Tasks : Return(t)
    \/ \E k \in Stores, nss \in InsertNamespaces, raw \in RawPrivateKeys :
          InsertSr25519Memory(k, nss, raw)

Spec == Init /\ [][Next]_vars

\* One keystore, every operation, and the history of signatures kept.
NextSigned ==
    \/ \E t \in Tasks : Start(t)
    \/ \E t \in Tasks : Acquire(t)
    \/ \E t \in Tasks : GenDraw(t)
    \/ \E t \in Tasks : GenInsert(t)
    \/ \E t \in Tasks : KeysCollect(t)
    \/ \E t \in Tasks : SignRecorded(t)
    \/ \E t \in Tasks : SignSr25519Vrf(t)
    \/ \E t \in Tasks : Return(t)
    \/ \E k \in Stores, nss \in InsertNamespaces, raw \in RawPrivateKeys :
          InsertSr25519Memory(k, nss, raw)

SpecSigned == Init /\ [][NextSigned]_vars

\* Two keystores driven by generation calls only.
NextTwin ==
    \/ \E t \in Tasks : StartGenerate(t)
    \/ \E t \in Tasks : Acquire(t)
    \/ \E t \in Tasks : GenDraw(t)
    \/ \E t \in Tasks : GenInsert(t)
    \/ \E t \in Tasks : Return(t)

SpecTwin == InitTwin /\ [][NextTwin]_vars

\* One keystore set up by insertions and read by keys().
StartKeys(t) == StartOf(t, {"keys"})

NextSetup ==
    \/ \E t \in Tasks : StartKeys(t)
    \/ \E t \in Tasks : Acquire(t)
    \/ \E t \in Tasks : KeysCollect(t)
    \/ \E t \in Tasks : Return(t)
    \/ \E k \in Stores, nss \in InsertNamespaces, raw \in RawPrivateKeys :
          InsertSr25519MemoryWithin(k, nss, raw, MaxSetupInsert)

SpecSetup == Init /\ [][NextSetup]_vars

(***************************************************************************)
(* Scheduling: the executor polls every task that can make progress, and   *)
(* the lock is handed out fairly: a task that finds the lock free again    *)
(* and again gets it in the end.                                           *)
(***************************************************************************)
Fairness ==
    \A t \in Tasks :
        /\ SF_vars(Acquire(t))
        /\ WF_vars(GenDraw(t))
        /\ WF_vars(GenInsert(t))
        /\ WF_vars(KeysCollect(t))
        /\ WF_vars(Sign(t))
        /\ WF_vars(SignSr25519Vrf(t))
        /\ WF_vars(Return(t))

FairSpec == Spec /\ Fairness

(***************************************************************************)
(* Vocabulary of the properties.                                           *)
(***************************************************************************)
CriticalPcs == {"locked", "drawn", "ret"}

InsertedEntries(k) ==
    UNION {log[k][i].entries : i \in {j \in 1 .. Len(log[k]) : log[k][j].kind = "insert"}}

LoggedKeys(k) == {e[2] : e \in IndexAt(k, Len(log[k]))}

AtResult(t, op) == pc[t] = "ret" /\ call[t].op = op

NoGenerationRunning(k) == \A u \in Tasks : home[u] = k => call[u].op \notin GenOps

\* Where the PRNG stands once every logged generation call has drawn.
SettledPos(k) ==
    HasherDraws
    + Ed25519Draws * Cardinality({i \in GenEntries(k) : log[k][i].pk.alg = "Ed25519"})
    + Sr25519Draws * Cardinality({i \in GenEntries(k) : log[k][i].pk.alg = "Sr25519"})

(***************************************************************************)
(* C1.  Concurrent generation calls on one shared keystore never return    *)
(* the same public key twice, and once every generation call has returned  *)
(* keys() reports as many entries as generation calls were made plus the   *)
(* entries that insertions had put in the index.                           *)
(***************************************************************************)
C1_DistinctKeysAndCount ==
    \A k \in Stores :
        /\ \A i, j \in GenEntries(k) : i # j => log[k][i].pk # log[k][j].pk
        /\ \A t \in Tasks :
              (home[t] = k /\ AtResult(t, "keys") /\ NoGenerationRunning(k))
              => Cardinality(ret[t].list)
                   = GenMade(k) + Cardinality(InsertedEntries(k))

C1_Witness ==
    \E t \in Tasks :
        /\ AtResult(t, "keys")
        /\ NoGenerationRunning(home[t])
        /\ \E i, j \in GenEntries(home[t]) :
              /\ i < j
              /\ log[home[t]][i].pk.alg = "Sr25519"
              /\ log[home[t]][j].pk.alg = "Sr25519"
              /\ log[home[t]][i].nss = log[home[t]][j].nss
        /\ log[home[t]][1].kind = "insert"
        /\ Cardinality(log[home[t]][1].entries) = 2
        /\ Cardinality(ret[t].list) = 4

(***************************************************************************)
(* C2.  A key generated under namespace n1 cannot be used through another  *)
(* namespace n2: sign(n2, pk, payload) fails with UnknownPublicKey.        *)
(***************************************************************************)
GeneratedUnderOther(k, ns, pk) ==
    \E i \in GenEntries(k) : log[k][i].pk = pk /\ log[k][i].nss[1] # ns

C2_OtherNamespaceUnknown ==
    \A t \in Tasks :
        (AtResult(t, "sign") /\ GeneratedUnderOther(home[t], call[t].ns, call[t].pk))
        => ret[t].tag = "UnknownPublicKey"

C2_Witness ==
    \E t \in Tasks :
        /\ AtResult(t, "sign")
        /\ GeneratedUnderOther(home[t], call[t].ns, call[t].pk)
        /\ \E e \in DOMAIN keys[home[t]] : e[1] = call[t].ns
        /\ ret[t].tag = "UnknownPublicKey"

(***************************************************************************)
(* C3.  As claimed: sign_sr25519_vrf with the public key of a key made by  *)
(* generate_ed25519 fails with WrongKeyAlgorithm under every namespace.    *)
(***************************************************************************)
GeneratedEd25519(k, pk) ==
    \E i \in GenEntries(k) : log[k][i].pk = pk /\ pk.alg = "Ed25519"

GeneratedEd25519Under(k, ns, pk) ==
    \E i \in GenEntries(k) : log[k][i].pk = pk /\ pk.alg = "Ed25519" /\ log[k][i].nss[1] = ns

C3_AsClaimed ==
    \A t \in Tasks :
        (AtResult(t, "sign_sr25519_vrf") /\ GeneratedEd25519(home[t], call[t].pk))
        => ret[t].tag = "WrongKeyAlgorithm"

(***************************************************************************)
(* C3, amended.  sign_sr25519_vrf with the public key of a key made by     *)
(* generate_ed25519 fails, whatever the label and the transcript items:    *)
(* with WrongKeyAlgorithm under the namespace the key was generated under, *)
(* with Sign(UnknownPublicKey) under every other namespace.                *)
(***************************************************************************)
C3_WrongAlgorithmInItsNamespace ==
    \A t \in Tasks :
        (AtResult(t, "sign_sr25519_vrf") /\ GeneratedEd25519(home[t], call[t].pk))
        => ret[t].tag = IF GeneratedEd25519Under(home[t], call[t].ns, call[t].pk)
                        THEN "WrongKeyAlgorithm"
                        ELSE "Sign(UnknownPublicKey)"

C3_Witness ==
    \E t \in Tasks :
        /\ AtResult(t, "sign_sr25519_vrf")
        /\ GeneratedEd25519Under(home[t], call[t].ns, call[t].pk)
        /\ ret[t].tag = "WrongKeyAlgorithm"

(***************************************************************************)
(* C4.  sign and sign_sr25519_vrf with a public key that no insertion and  *)
(* no generation of this keystore produced fail with UnknownPublicKey      *)
(* (wrapped in Sign by sign_sr25519_vrf), under every namespace.           *)
(***************************************************************************)
C4_NeverInsertedUnknown ==
    \A t \in Tasks :
        call[t].pk \notin LoggedKeys(home[t])
        => /\ AtResult(t, "sign") => ret[t].tag = "UnknownPublicKey"
           /\ AtResult(t, "sign_sr25519_vrf") => ret[t].tag = "Sign(UnknownPublicKey)"

C4_Witness ==
    \E t \in Tasks :
        /\ AtResult(t, "sign_sr25519_vrf")
        /\ call[t].pk \notin LoggedKeys(home[t])
        /\ \E e \in DOMAIN keys[home[t]] : e[1] = call[t].ns
        /\ ret[t].tag = "Sign(UnknownPublicKey)"

(***************************************************************************)
(* C5.  insert_sr25519_memory with a well-formed key and the namespaces    *)
(* Aura, Babe adds exactly the entries (Aura, pk) and (Babe, pk) for the   *)
(* public key pk derived from the key: the index after the call is the     *)
(* index before it plus these two, and every keys() taken afterwards       *)
(* contains both.                                                          *)
(***************************************************************************)
AuraBabe == <<"Aura", "Babe">>

AuraBabeEntries(raw) ==
    {<<"Aura", PublicKeyOf(ToKeypair(raw))>>, <<"Babe", PublicKeyOf(ToKeypair(raw))>>}

InsertedAuraBabe(k, i) ==
    /\ i \in 1 .. Len(log[k])
    /\ log[k][i].kind = "insert"
    /\ log[k][i].nss = AuraBabe

C5_InsertAuraBabe ==
    [][\A k \in Stores :
          /\ (Len(log'[k]) = Len(log[k]) + 1 /\ InsertedAuraBabe(k, Len(log[k]) + 1)')
             => /\ DOMAIN keys'[k]
                     = (DOMAIN keys[k]) \cup AuraBabeEntries(log'[k][Len(log'[k])].raw)
                /\ \A e \in (DOMAIN keys[k]) \ AuraBabeEntries(log'[k][Len(log'[k])].raw) :
                      keys'[k][e] = keys[k][e]
          /\ \A t \in Tasks :
                (home[t] = k /\ AtResult(t, "keys")')
                => \A i \in 1 .. Len(log'[k]) :
                      InsertedAuraBabe(k, i)'
                      => AuraBabeEntries(log'[k][i].raw) \subseteq ret'[t].list]_vars

C5_Witness ==
    \E t \in Tasks :
        /\ AtResult(t, "keys")
        /\ Len(log[home[t]]) = 2
        /\ log[home[t]][1].kind = "generate"
        /\ InsertedAuraBabe(home[t], 2)
        /\ ret[t].list = log[home[t]][1].entries \cup AuraBabeEntries(log[home[t]][2].raw)
        /\ Cardinality(ret[t].list) = 3

(***************************************************************************)
(* C6.  Two keystores constructed from the same seed return the same       *)
(* public key for their first generation call when the two calls are of    *)
(* the same algorithm.                                                     *)
(***************************************************************************)
SameFirstCall(k1, k2) ==
    /\ gen_rng[k1].seed = gen_rng[k2].seed
    /\ GenEntries(k1) # {}
    /\ GenEntries(k2) # {}
    /\ log[k1][1].pk.alg = log[k2][1].pk.alg

InCritical(k) == {t \in Tasks : home[t] = k /\ pc[t] \in CriticalPcs}

C7_OneCriticalSection ==
    \A k \in Stores :
        /\ \A t \in InCritical(k) : mutex[k] = t
        /\ Cardinality(InCritical(k)) <= 1
        /\ gen_rng[k].pos # SettledPos(k)
           => \E t \in Tasks : /\ InCritical(k) = {t}
                               /\ pc[t] = "drawn"
                               /\ call[t].op \in GenOps
        /\ \A t \in InCritical(k) : pc[t] # "drawn" => gen_rng[k].pos = SettledPos(k)

C7_Witness ==
    \E t, u \in Tasks :
        /\ home[t] = home[u]
        /\ pc[t] = "drawn"
        /\ pc[u] = "wait"
        /\ gen_rng[home[t]].pos # SettledPos(home[t])

C9_AcquisitionOrder ==
    \A t \in Tasks :
        AtResult(t, "keys")
        => \A j \in GenEntries(home[t]) :
              log[home[t]][j].entries \subseteq ret[t].list
              => \A n \in 1 .. (log[home[t]][j].ticket - 1) :
                    \E i \in GenEntries(home[t]) :
                        /\ log[home[t]][i].ticket = n
                        /\ log[home[t]][i].entries \subseteq ret[t].list

C9_Witness ==
    \E t \in Tasks :
        /\ AtResult(t, "keys")
        /\ \E i, j \in GenEntries(home[t]) :
              /\ log[home[t]][i].ticket < log[home[t]][j].ticket
              /\ log[home[t]][i].entries \subseteq ret[t].list
              /\ log[home[t]][j].entries \subseteq ret[t].list

(***************************************************************************)
(* C10.  The result of keys() is the index as it stood at one instant      *)
(* between the call's start and its return: it holds every entry added by  *)
(* an operation that had returned when keys() was called, only entries of  *)
(* the index, and no partially applied operation.                          *)
(***************************************************************************)
C10_SnapshotAtOneInstant ==
    \A t \in Tasks :
        AtResult(t, "keys")
        => /\ obs[t].seen \subseteq ret[t].list
           /\ ret[t].list \subseteq DOMAIN keys[home[t]]
           /\ \E m \in obs[t].from .. Len(log[home[t]]) :
                 ret[t].list = IndexAt(home[t], m)

C10_Witness ==
    \E t \in Tasks :
        /\ AtResult(t, "keys")
        /\ obs[t].seen # {}
        /\ obs[t].from < Len(log[home[t]])
        /\ ret[t].list = IndexAt(home[t], Len(log[home[t]]))
        /\ ret[t].list # obs[t].seen

InsertCallAt(k, i) == i \in 1 .. Len(log[k]) /\ log[k][i].kind # "generate"

C12_InvalidKeyPanics ==
    [][\A k \in Stores :
          /\ (Len(log'[k]) = Len(log[k]) + 1
                /\ InsertCallAt(k, Len(log[k]) + 1)'
                /\ log'[k][Len(log'[k])].raw.key = BadScalar)
             => /\ keys'[k] = keys[k]
                /\ log'[k][Len(log'[k])].kind = "panic"
                /\ log'[k][Len(log'[k])].pk = NoPublicKey
          /\ \A i \in 1 .. Len(log'[k]) :
                log'[k][i].kind = "insert" => log'[k][i].raw.key # BadScalar
          /\ \A e \in DOMAIN keys'[k] :
                keys'[k][e].key # RawBytes(BadScalar)]_vars

C12_Witness ==
    \E k \in Stores :
        /\ Len(log[k]) = 2
        /\ log[k][1].kind = "generate"
        /\ log[k][2].kind = "panic"
        /\ log[k][2].raw.key = BadScalar
        /\ DOMAIN keys[k] = log[k][1].entries

(***************************************************************************)
(* C13.  The PRNG only moves forward and is never re-seeded: every         *)
(* generation call draws outputs that lie after the one new drew for the   *)
(* hasher and after those of every earlier generation call, so no output   *)
(* is consumed twice.                                                      *)
(***************************************************************************)
\* The positions of the stream that a generated private key consumed.
Consumed(priv) ==
    {b \in {priv.key.b, priv.nonce.b} :
        \/ (priv.key.src = "rng" /\ b = priv.key.b)
        \/ (priv.nonce.src = "rng" /\ b = priv.nonce.b)}

GeneratedKeys(k) == {keys[k][e] : e \in {d \in DOMAIN keys[k] : keys[k][d].key.src = "rng"}}

C13_PrngOnlyForward ==
    [][\A k \in Stores :
          /\ gen_rng'[k].seed = gen_rng[k].seed
          /\ gen_rng'[k].pos >= gen_rng[k].pos
          /\ \A t \in Tasks :
                (home[t] = k /\ pc[t] = "locked" /\ pc'[t] = "drawn")
                => /\ gen_rng'[k].pos > gen_rng[k].pos
                   /\ Consumed(local'[t]) # {}
                   /\ \A b \in Consumed(local'[t]) :
                         /\ b >= HasherDraws
                         /\ b >= gen_rng[k].pos
                         /\ b < gen_rng'[k].pos
                         /\ \A p \in GeneratedKeys(k) : b \notin Consumed(p)]_vars

C13_Witness ==
    \E t \in Tasks :
        /\ pc[t] = "drawn"
        /\ GeneratedKeys(home[t]) # {}
        /\ \E p \in GeneratedKeys(home[t]) : p.variant = "MemorySr25519"
        /\ gen_rng[home[t]].pos > HasherDraws + Sr25519Draws

(***************************************************************************)
(* C14.  Signing the same payload twice with the same Ed25519 key through  *)
(* sign gives the same signature, whatever the keystore did in between.    *)
(***************************************************************************)
SameRequest(a, b) == a.ns = b.ns /\ a.pk = b.pk /\ a.payload = b.payload

Quiet(k) == \A t \in Tasks : home[t] = k => pc[t] = "idle"

C15_LockReleasedOnReturn ==
    [][\A k \in Stores :
          /\ \A t \in Tasks :
                (home[t] = k /\ pc[t] = "ret" /\ pc'[t] = "idle")
                => mutex'[k] = NoTask
          /\ Quiet(k)' => mutex'[k] = NoTask
          /\ mutex'[k] # NoTask
             => (home[mutex'[k]] = k /\ pc'[mutex'[k]] \in CriticalPcs)]_vars

C15_Witness ==
    \E t, u \in Tasks :
        /\ home[t] = home[u]
        /\ pc[t] = "ret"
        /\ ret[t].tag = "WrongKeyAlgorithm"
        /\ mutex[home[t]] = t
        /\ pc[u] = "wait"
        /\ call[u].op = "keys"

(***************************************************************************)
(* C16.  For an Sr25519 entry sign_sr25519_vrf signs the transcript that   *)
(* starts with the label and then holds the items in the order given,      *)
(* each under its own label, bytes as a message and integers as u64, none  *)
(* skipped, repeated or moved; the result carries the proof alone.         *)
(***************************************************************************)
AppendedAs(item) == IF item.kind = "bytes" THEN "append_message" ELSE "append_u64"

C16_TranscriptInOrder ==
    \A t \in Tasks :
        (AtResult(t, "sign_sr25519_vrf") /\ ret[t].tag = "OkVrf")
        => LET tr == ret[t].sig.transcript
               items == call[t].items
           IN  /\ Len(tr) = Len(items) + 1
               /\ tr[1].op = "new"
               /\ tr[1].label = call[t].label
               /\ \A i \in 1 .. Len(items) :
                     /\ tr[i + 1].op = AppendedAs(items[i])
                     /\ tr[i + 1].label = items[i].label
                     /\ tr[i + 1].value = items[i].value
               /\ ret[t].sig.scheme = "Sr25519Vrf"
               /\ ret[t].pk = NoPublicKey
               /\ ret[t].list = {}

C16_Witness ==
    \E t \in Tasks :
        /\ AtResult(t, "sign_sr25519_vrf")
        /\ ret[t].tag = "OkVrf"
        /\ call[t].items[1].kind = "u64"
        /\ call[t].items[2].kind = "bytes"
        /\ ret[t].sig.transcript[2].op = "append_u64"
        /\ ret[t].sig.transcript[3].op = "append_message"

(***************************************************************************)
(* C17.  keys, sign and sign_sr25519_vrf leave the keystore as it was,     *)
(* whether they succeed or fail: no step of theirs changes the index, the  *)
(* PRNG or the hasher.                                                     *)
(***************************************************************************)
ReadOps == {"keys", "sign", "sign_sr25519_vrf"}

C17_ReadOnlyOperations ==
    [][\A t \in Tasks :
          (pc'[t] # pc[t] /\ (call[t].op \in ReadOps \/ call'[t].op \in ReadOps))
          => /\ keys' = keys
             /\ gen_rng' = gen_rng
             /\ hasher' = hasher]_vars

C17_Witness ==
    \E t \in Tasks :
        /\ AtResult(t, "sign")
        /\ ret[t].tag = "UnknownPublicKey"
        /\ DOMAIN keys[home[t]] # {}
        /\ gen_rng[home[t]].pos = SettledPos(home[t])
        /\ gen_rng[home[t]].pos > HasherDraws
        /\ GenMade(home[t]) < MaxGen

(***************************************************************************)
(* C18.  Every entry of the index stored under (namespace, pk) holds a     *)
(* private key whose public key is pk, of the variant of the operation     *)
(* that created it: Ed25519 for generate_ed25519, Sr25519 for              *)
(* generate_sr25519 and insert_sr25519_memory; an entry never changes its  *)
(* variant.                                                                *)
(***************************************************************************)
VariantOf(op) == IF op = "generate_ed25519" THEN "MemoryEd25519" ELSE "MemorySr25519"

AlgOf(variant) == IF variant = "MemoryEd25519" THEN "Ed25519" ELSE "Sr25519"

C18_EntriesMatchTheirKeys ==
    [][\A k \in Stores :
          /\ \A e \in DOMAIN keys'[k] :
                /\ keys'[k][e].variant \in {"MemoryEd25519", "MemorySr25519"}
                /\ e[2].alg = AlgOf(keys'[k][e].variant)
                /\ e[2].point = keys'[k][e].key
                /\ PublicKeyOf(keys'[k][e]) = e[2]
          /\ \A e \in DOMAIN keys[k] : keys'[k][e].variant = keys[k][e].variant
          /\ \A t \in Tasks :
                (home[t] = k /\ pc[t] = "drawn" /\ pc'[t] = "ret")
                => /\ <<call[t].ns, ret'[t].pk>> \in DOMAIN keys'[k]
                   /\ keys'[k][<<call[t].ns, ret'[t].pk>>].variant = VariantOf(call[t].op)
                   /\ keys'[k][<<call[t].ns, ret'[t].pk>>].key.src = "rng"
          /\ (Len(log'[k]) = Len(log[k]) + 1 /\ log'[k][Len(log'[k])].kind = "insert")
             => \A e \in log'[k][Len(log'[k])].entries :
                   /\ e \in DOMAIN keys'[k]
                   /\ keys'[k][e].variant = "MemorySr25519"
                   /\ keys'[k][e].key = RawBytes(log'[k][Len(log'[k])].raw.key)]_vars

C18_Witness ==
    \E k \in Stores :
        /\ \E e \in DOMAIN keys[k] : keys[k][e].variant = "MemoryEd25519"
        /\ \E e \in DOMAIN keys[k] :
              keys[k][e].variant = "MemorySr25519" /\ keys[k][e].key.src = "rng"
        /\ \E e \in DOMAIN keys[k] :
              keys[k][e].variant = "MemorySr25519" /\ keys[k][e].key.src = "raw"

(***************************************************************************)
(* C19.  Once a generation or an insertion has returned pk for namespace   *)
(* ns, sign(ns, pk, payload) succeeds with a signature by that key and     *)
(* never reports UnknownPublicKey; sign_sr25519_vrf(ns, pk, ..) succeeds   *)
(* when the key is an Sr25519 key.                                         *)
(***************************************************************************)
Registered(t) == <<call[t].ns, call[t].pk>> \in ReturnedEntries(home[t])

C19_RegisteredKeySigns ==
    \A t \in Tasks :
        /\ (AtResult(t, "sign") /\ Registered(t))
           => /\ ret[t].tag = "Ok"
              /\ ret[t].sig.scheme = call[t].pk.alg
              /\ ret[t].sig.key = call[t].pk.point
              /\ ret[t].sig.payload = call[t].payload
        /\ (AtResult(t, "sign_sr25519_vrf") /\ Registered(t) /\ call[t].pk.alg = "Sr25519")
           => /\ ret[t].tag = "OkVrf"
              /\ ret[t].sig.key = call[t].pk.point

C19_Witness ==
    \E t \in Tasks :
        /\ AtResult(t, "sign")
        /\ Len(log[home[t]]) = 3
        /\ log[home[t]][1].kind = "insert"
        /\ call[t].ns = "Babe"
        /\ <<call[t].ns, call[t].pk>> \in log[home[t]][1].entries
        /\ log[home[t]][1].nss = <<"Aura", "Babe">>
        /\ ret[t].tag = "Ok"
        /\ ret[t].sig.context = "substrate"

(***************************************************************************)
(* C20.  The index holds at most one entry per (namespace, public key):    *)
(* keys() never yields a pair twice, an insertion adds exactly the pairs   *)
(* of its distinct namespaces that were not there, a namespace repeated in *)
(* one call gives one entry, and inserting the same key under the same     *)
(* namespaces again leaves the set of keys() as it was.                    *)
(***************************************************************************)
NamespacesOf(nss) == {nss[i] : i \in 1 .. Len(nss)}

InsertedBefore(k, nss, raw) ==
    \E j \in 1 .. Len(log[k]) :
        log[k][j].kind = "insert" /\ log[k][j].nss = nss /\ log[k][j].raw = raw

NoPairTwice(list) ==
    \A e \in list : \A f \in list : (e[1] = f[1] /\ e[2] = f[2]) => e = f

C20_OneEntryPerPair ==
    [][\A k \in Stores :
          /\ \A t \in Tasks :
                (home[t] = k /\ AtResult(t, "keys"))
                => /\ NoPairTwice(ret[t].list)
                   /\ ret[t].list = IndexAt(k, Len(log[k]))
          /\ (Len(log'[k]) = Len(log[k]) + 1 /\ log'[k][Len(log'[k])].kind = "insert")
             => LET last == log'[k][Len(log'[k])]
                    pk == PublicKeyOf(ToKeypair(last.raw))
                IN  /\ Snapshot(keys'[k])
                         = Snapshot(keys[k]) \cup {<<ns, pk>> : ns \in NamespacesOf(last.nss)}
                    /\ Cardinality(Snapshot(keys'[k]) \ Snapshot(keys[k]))
                         <= Cardinality(NamespacesOf(last.nss))
                    /\ InsertedBefore(k, last.nss, last.raw)
                       => Snapshot(keys'[k]) = Snapshot(keys[k])]_vars

C20_Witness ==
    \E t \in Tasks :
        /\ AtResult(t, "keys")
        /\ Len(log[home[t]]) = 2
        /\ log[home[t]][1].kind = "insert"
        /\ log[home[t]][2] = log[home[t]][1]
        /\ log[home[t]][1].nss = <<"Aura", "Babe">>
        /\ Cardinality(ret[t].list) = 2

====
